---- MODULE Spec2Model ----
(***************************************************************************)
(* The caching HTTP proxy of src/proxy.c: the shared cache list            *)
(* (cachehead, cachesize), the thread routine proxy() and the cache        *)
(* functions get_cached_item() and delete_last_cache().                    *)
(*                                                                         *)
(* The cache is modelled at the level of the linked list: a heap of        *)
(* cacheitem cells with next pointers, the sentinel cell cachehead and the *)
(* counter cachesize.  Every thread has its own program counter and its    *)
(* own locals.  One action is one C statement of the cache code; the       *)
(* compound assignments to cachesize are a load followed by a store.  The  *)
(* source takes no lock anywhere, so Spec interleaves the threads' steps   *)
(* freely.  SeqSpec is the same program under a scheduler that never       *)
(* starts a step while another thread is inside a cache operation.         *)
(***************************************************************************)
EXTENDS Integers, Sequences, FiniteSets, TLC

(***************************************************************************)
(* Bounds of the model.                                                    *)
(***************************************************************************)
NumWorkers == 2   \* threads that exist at the same time
MaxConns   == 3   \* connections accepted in one run
MaxReads   == 2   \* chunks one upstream response is read in
MaxChunk   == 2   \* bytes one rio_readnb call returns at most
NumBytes   == 1   \* distinct byte values of a response, threads interleaved
NumRelayBytes == 2 \* distinct byte values of a response, one handler at a time
NumTargets == 2   \* distinct (host, port, uri) targets requested
MaxWarm    == 3   \* entries the cache holds when a run starts on a used cache

(***************************************************************************)
(* The two size limits of the program, scaled down.  The code relies on    *)
(* one relation between them only: an object that passed the test          *)
(* len + n < MAX_OBJECT_SIZE fits an empty cache.                          *)
(***************************************************************************)
MAX_CACHE_SIZE  == 3
MAX_OBJECT_SIZE == 3

Workers == 1..NumWorkers
\* addresses malloc can return for a cacheitem: one for each connection that
\* can insert, and one for each entry the cache can hold when a run starts
Nodes   == 1..(MaxConns + MaxWarm)
HEAD    == 0                \* the address of the sentinel *cachehead
NULL    == -1

\* the fixed reply "HTTP/1.0 400 Bad Request ...", as the character codes of
\* its first twelve characters
bad_request == <<72, 84, 84, 80, 47, 49, 46, 48, 32, 52, 48, 48>>

Hosts == <<"a.com", "b.com">>
Ports == <<"80", "8080">>
Uris  == <<"/", "/x">>

\* the i-th target a client asks for: what parse_url hands to the handler
Target(i) ==
    [host |-> Hosts[((i - 1) % 2) + 1],
     port |-> Ports[(((i - 1) \div 2) % 2) + 1],
     uri  |-> Uris[(((i - 1) \div 4) % 2) + 1]]

Targets == {Target(i) : i \in 1..NumTargets}
NoTarget == [host |-> "", port |-> "", uri |-> ""]

\* what one rio_readnb call can return when upstream sends bytes of 1..nb,
\* and what a cache buffer can hold
Chunks(nb)  == UNION {[1..k -> 1..nb] : k \in 1..MaxChunk}
Objects(nb) == UNION {[1..k -> 1..nb] : k \in 0..(MAX_OBJECT_SIZE - 1)}

VARIABLES
    heap,       \* heap[a]: the cacheitem at address a (heap[HEAD] is *cachehead)
    cachesize,  \* the global cachesize
    th,         \* th[w]: program counter and locals of thread w
    conns,      \* connections accepted so far
    crashed,    \* the process was killed by a memory fault
    brk,        \* the cells 1..brk have been handed out by malloc at least once
    lru,        \* history: the entries inserted and not evicted, most recently
                \* inserted or hit first, each with the data it was inserted with
    rq,         \* rq[w]: the request line in buf of thread w and the locals of
                \* check_request_line and parse_url working on it
    olds        \* the position strtok continues from: one for the whole process

vars == <<heap, cachesize, th, conns, crashed, brk, lru, rq, olds>>

----------------------------------------------------------------------------
(***************************************************************************)
(* Heap cells.                                                             *)
(***************************************************************************)
FreedCell == [alloc |-> FALSE, length |-> 0, key |-> NoTarget, data |-> <<>>, next |-> NULL]
HeadCell  == [alloc |-> TRUE,  length |-> 0, key |-> NoTarget, data |-> <<>>, next |-> NULL]

Alloc(a) == a \in DOMAIN heap /\ heap[a].alloc

\* free(): the allocator overwrites the first bytes of the cell and of its
\* strings and leaves the rest in place.  A freed cell keeps its next field
\* (loads and stores through a dangling pointer still reach it) until malloc
\* hands the cell out again; its length, its strings and its data read as
\* any value.
Freed(cell) == [FreedCell EXCEPT !.next = cell.next]

ReadLength(a) == IF heap[a].alloc THEN {heap[a].length} ELSE 0..(MAX_OBJECT_SIZE - 1)
ReadData(a)   == IF heap[a].alloc THEN {heap[a].data}   ELSE Objects(NumBytes)

\* line 288: all three strings equal
SameRequest(key, cell) ==
    /\ key.host = cell.key.host
    /\ key.port = cell.key.port
    /\ key.uri  = cell.key.uri

\* lines 314 and 208: the new value of cachesize
Shrunk_Same(size, l) == size

Shrunk(size, l) == size - l

Grown(size, len) == size + len

\* line 193: the loop condition of the eviction loop
NeedsEviction_NoLen(size, len) == size > MAX_CACHE_SIZE

NeedsEviction(size, len) == size + len > MAX_CACHE_SIZE

\* line 181: the chunk still fits the cache buffer
Fits_Inclusive(len, n) == len + n <= MAX_OBJECT_SIZE

Fits(len, n) == len + n < MAX_OBJECT_SIZE

\* the addresses malloc can return: any cell that was freed, or a cell never
\* handed out before (these are interchangeable: the lowest one stands for all)
FreeNodes == {a \in Nodes : ~heap[a].alloc /\ a <= brk + 1}

\* the cells reachable from a, in list order (a walk stops at a cell it has seen)
RECURSIVE Walk(_, _, _)
Walk(h, a, seen) ==
    IF a = NULL \/ a \in seen THEN <<>>
    ELSE <<a>> \o Walk(h, h[a].next, seen \cup {a})

CacheList == Walk(heap, heap[HEAD].next, {HEAD})

RECURSIVE SumLengths(_, _)
SumLengths(h, s) == IF s = <<>> THEN 0 ELSE h[Head(s)].length + SumLengths(h, Tail(s))

RECURSIVE Flatten(_)
Flatten(ss) == IF ss = <<>> THEN <<>> ELSE Head(ss) \o Flatten(Tail(ss))

\* history bookkeeping on lru
LruIds == [i \in 1..Len(lru) |-> lru[i].id]
LruWithout(a) == SelectSeq(lru, LAMBDA e : e.id # a)
LruOnly(a) == SelectSeq(lru, LAMBDA e : e.id = a)

----------------------------------------------------------------------------
(***************************************************************************)
(* Request lines: C strings in the buf arrays of the threads, and the      *)
(* tokeniser strtok working on them.  A character is a one-character       *)
(* string, NUL the empty string; a string is a sequence of characters, a   *)
(* C string in a buffer the characters before the first NUL.               *)
(***************************************************************************)
MaxPieces == 6    \* pieces a request line is put together from
MaxUrlLen == 4    \* characters of a target after the optional http://

NUL  == ""
CRLF == <<"\r", "\n">>
V10  == <<"H", "T", "T", "P", "/", "1", ".", "0">>
V11  == <<"H", "T", "T", "P", "/", "1", ".", "1">>
V20  == <<"H", "T", "T", "P", "/", "2", ".", "0">>
Scheme == <<"h", "t", "t", "p", ":", "/", "/">>
Slash  == <<"/">>
Port80 == <<"8", "0">>
PtrBytes == 8     \* sizeof(url), line 265

\* a pointer into the buf of thread buf, at index off; the null pointer
NullPtr == [buf |-> 0, off |-> 0]
Ptr(w, i) == [buf |-> w, off |-> i]

SeqsUpTo(S, n) == UNION {[1..k -> S] : k \in 0..n}

\* the request lines a client sends: lines put together from a token
\* character, blanks, tabs, a version and line ends; and well-formed lines
\* around every target over a host character, ':' and '/'
Pieces == {<<"G">>, <<" ">>, <<"\t">>, V10, CRLF}

PieceLines == {Flatten(ps) : ps \in SeqsUpTo(Pieces, MaxPieces) \ {<<>>}}

\* a target whose port has as many characters as a pointer has bytes
LongPortUrl == <<"a", ":">> \o [i \in 1..PtrBytes |-> "8"]

Urls ==
    ({pre \o u : pre \in {<<>>, Scheme}, u \in SeqsUpTo({"a", ":", "/"}, MaxUrlLen)}
        \ {<<>>}) \cup {LongPortUrl}

UrlLine(url) == <<"G", " ">> \o url \o <<" ">> \o V11 \o CRLF

UrlLines == {UrlLine(u) : u \in Urls}

RequestLines == PieceLines \cup UrlLines

\* the lines two clients send at the same time
RaceLines ==
    {UrlLine(<<"a", ":", "a", "/", "a">>), UrlLine(<<"a", "/", "a">>),
     <<"G", " ", "a", " ">> \o V20 \o CRLF}

\* the index of the NUL that ends the C string at index i of b
RECURSIVE StrEnd(_, _)
StrEnd(b, i) == IF b[i] = NUL THEN i ELSE StrEnd(b, i + 1)

\* the C string at p, where R[v].buf is the buf of thread v (strlen, strcpy)
CStr(R, p) == SubSeq(R[p.buf].buf, p.off, StrEnd(R[p.buf].buf, p.off) - 1)

\* strchr(p, c)
Strchr(R, p, c) ==
    LET b    == R[p.buf].buf
        hits == {i \in p.off..(StrEnd(b, p.off) - 1) : b[i] = c}
    IN  IF hits = {} THEN NullPtr
        ELSE Ptr(p.buf, CHOOSE i \in hits : \A j \in hits : i <= j)

HasChar(str, c) == \E i \in 1..Len(str) : str[i] = c

\* strncmp(s, prefix, strlen(prefix)) == 0
StartsWith(str, prefix) ==
    /\ Len(str) >= Len(prefix)
    /\ SubSeq(str, 1, Len(prefix)) = prefix

\* strspn and strcspn: the index after the delimiters, after the token
RECURSIVE SkipDelims(_, _, _)
SkipDelims(b, i, delim) ==
    IF b[i] # NUL /\ HasChar(delim, b[i]) THEN SkipDelims(b, i + 1, delim) ELSE i

RECURSIVE SkipToken(_, _, _)
SkipToken(b, i, delim) ==
    IF b[i] # NUL /\ ~HasChar(delim, b[i]) THEN SkipToken(b, i + 1, delim) ELSE i

\* strtok(s, delim) with the continuation position save: the memory after
\* the call, the new continuation position and the token returned.  With
\* s = NULL the scan starts at save, in whichever buffer that points to; the
\* delimiter that ends the token is overwritten with NUL.
Strtok(R, save, s, delim) ==
    LET from  == IF s = NullPtr THEN save ELSE s
        b     == R[from.buf].buf
        start == SkipDelims(b, from.off, delim)
        end   == SkipToken(b, start, delim)
    IN  IF b[start] = NUL
        THEN [rq |-> R, save |-> Ptr(from.buf, start), ret |-> NullPtr]
        ELSE IF b[end] = NUL
        THEN [rq |-> R, save |-> Ptr(from.buf, end), ret |-> Ptr(from.buf, start)]
        ELSE [rq |-> [R EXCEPT ![from.buf].buf[end] = NUL],
              save |-> Ptr(from.buf, end + 1), ret |-> Ptr(from.buf, start)]

\* the header names of line 168 and the fixed header block of line 9
UserAgent  == <<"U", "s", "e", "r", "-", "A", "g", "e", "n", "t">>
Connection == <<"C", "o", "n", "n", "e", "c", "t", "i", "o", "n">>
ProxyConnection == <<"P", "r", "o", "x", "y", "-">> \o Connection

client_res_hdr ==
    <<"User-Agent: Mozilla/5.0 (X11; Linux x86_64; rv:10.0.3) Gecko/20120305 Firefox/10.0.3\r\n",
      "Connection: close\r\n", "Proxy-Connection: close\r\n", "\r\n">>

MaxHeaders    == 3   \* lines a client sends after the request line
MaxReadErrors == 1   \* reads of the header loop that report an error

\* a header line with a one-character value
HeaderLine(name) == name \o <<":", " ", "x">> \o CRLF

\* the header lines clients send: the three names of line 168, a name in
\* lower case, a longer name that starts with one of the three, and others
HeaderLines ==
    {HeaderLine(UserAgent), HeaderLine(Connection), HeaderLine(ProxyConnection),
     HeaderLine(<<"c", "o", "n", "n", "e", "c", "t", "i", "o", "n">>),
     HeaderLine(Connection \o <<"-", "I", "d">>),
     HeaderLine(<<"H", "o", "s", "t">>),
     HeaderLine(<<"A", "c", "c", "e", "p", "t">>)}

\* what a client sends after the request line: header lines and blank lines
ClientLines == SeqsUpTo(HeaderLines \cup {CRLF}, MaxHeaders)

\* the locals of check_request_line and parse_url in thread w, and its buf
NewRequest ==
    [pc |-> "recv",
     line |-> <<>>,         \* history: the line as the client sent it
     buf |-> <<NUL>>,       \* buf
     method |-> NullPtr,    \* method
     url |-> NullPtr,       \* url of proxy
     version |-> NullPtr,   \* version
     purl |-> NullPtr,      \* url of parse_url
     hp |-> NullPtr,        \* hp
     pu |-> NullPtr,        \* pu
     host |-> <<>>,         \* *host
     port |-> <<>>,         \* *port
     uri |-> <<>>]          \* *uri

\* line 126: rio_readlineb has put the line into buf
Loaded(line) ==
    [NewRequest EXCEPT !.pc = "crl_blank", !.line = line, !.buf = line \o <<NUL>>]

\* The statements of check_request_line and parse_url as functions of the
\* machine M = [rq, olds]: the buffers and locals of all threads and the
\* continuation position of strtok.
\* line 227
CrlBlank(M, w) ==
    IF Strchr(M.rq, Ptr(w, 1), " ") = NullPtr
    THEN [M EXCEPT !.rq[w].pc = "rejected"]
    ELSE [M EXCEPT !.rq[w].pc = "crl_method"]

\* line 230
CrlMethod(M, w) ==
    LET r == Strtok(M.rq, M.olds, Ptr(w, 1), <<" ">>) IN
    [rq |-> [r.rq EXCEPT ![w].method = r.ret, ![w].pc = "crl_url"], olds |-> r.save]

\* line 231
CrlUrl(M, w) ==
    LET r == Strtok(M.rq, M.olds, NullPtr, <<" ">>) IN
    [rq |-> [r.rq EXCEPT ![w].url = r.ret, ![w].pc = "crl_version"], olds |-> r.save]

\* lines 232-238
CrlVersion_NoCheck(M, w) ==
    LET r  == Strtok(M.rq, M.olds, NullPtr, CRLF)
        ok == r.ret # NullPtr
    IN  [rq |-> [r.rq EXCEPT ![w].version = r.ret,
                             ![w].pc = IF ok THEN "pu_scan" ELSE "rejected"],
         olds |-> r.save]

CrlVersion(M, w) ==
    LET r  == Strtok(M.rq, M.olds, NullPtr, CRLF)
        ok == r.ret # NullPtr /\ CStr(r.rq, r.ret) \in {V11, V10}
    IN  [rq |-> [r.rq EXCEPT ![w].version = r.ret,
                             ![w].pc = IF ok THEN "pu_scan" ELSE "rejected"],
         olds |-> r.save]

\* lines 248-252 (strncmp on a null url is a memory fault)
PuScan(M, w) ==
    LET t == M.rq[w] IN
    IF t.url = NullPtr THEN [M EXCEPT !.rq[w].pc = "fault"]
    ELSE LET u == IF StartsWith(CStr(M.rq, t.url), Scheme)
                  THEN Ptr(t.url.buf, t.url.off + Len(Scheme)) ELSE t.url
         IN  [M EXCEPT !.rq[w].purl = u,
                       !.rq[w].hp = Strchr(M.rq, u, ":"),
                       !.rq[w].pu = Strchr(M.rq, u, "/"),
                       !.rq[w].pc = "pu_host"]

\* lines 254-263
PuHost(M, w) ==
    LET t == M.rq[w]
        r == Strtok(M.rq, M.olds, t.purl, IF t.hp = NullPtr THEN <<"/">> ELSE <<":">>)
        h == CStr(r.rq, t.purl)
    IN  IF t.hp = NullPtr
        THEN [rq |-> [r.rq EXCEPT ![w].host = h, ![w].port = Port80, ![w].pc = "pu_uri"],
              olds |-> r.save]
        ELSE [rq |-> [r.rq EXCEPT ![w].host = h, ![w].pc = "pu_port"],
              olds |-> r.save]

\* lines 264-266 (strcpy from a null url is a memory fault; strcpy of more
\* than sizeof(url) bytes writes past the end of *port)
PuPort(M, w) ==
    LET r == Strtok(M.rq, M.olds, NullPtr, <<"/">>) IN
    IF r.ret = NullPtr
    THEN [rq |-> [r.rq EXCEPT ![w].purl = r.ret, ![w].pc = "fault"], olds |-> r.save]
    ELSE [rq |-> [r.rq EXCEPT ![w].purl = r.ret, ![w].port = CStr(r.rq, r.ret),
                              ![w].pc = IF Len(CStr(r.rq, r.ret)) + 1 > PtrBytes
                                        THEN "pu_overflow" ELSE "pu_uri"],
          olds |-> r.save]

\* lines 268-275 (strtok is not called when pu is null)
PuUri(M, w) ==
    LET t == M.rq[w]
        r == Strtok(M.rq, M.olds, NullPtr, <<>>)
    IN  IF t.pu = NullPtr
        THEN [M EXCEPT !.rq[w].uri = Slash, !.rq[w].pc = "parsed"]
        ELSE IF r.ret = NullPtr
        THEN [rq |-> [r.rq EXCEPT ![w].purl = r.ret, ![w].uri = Slash, ![w].pc = "parsed"],
              olds |-> r.save]
        ELSE [rq |-> [r.rq EXCEPT ![w].purl = r.ret, ![w].uri = Slash \o CStr(r.rq, r.ret),
                                  ![w].pc = "parsed"],
              olds |-> r.save]

----------------------------------------------------------------------------
(***************************************************************************)
(* Threads.                                                                *)
(***************************************************************************)
NewThread ==
    [pc |-> "idle",
     key |-> NoTarget,      \* host, port, uri
     item |-> NULL,         \* item
     prev |-> NULL,         \* prev of get_cached_item / delete_last_cache
     curr |-> NULL,         \* curr of get_cached_item
     last |-> NULL,         \* last of delete_last_cache
     reg |-> 0,             \* the value loaded for cachesize += / -=
     ci |-> NULL,           \* ci
     len |-> 0,             \* len
     valid |-> TRUE,        \* valid
     cachebuf |-> <<>>,     \* cachebuf[0 .. len-1]
     buf |-> <<>>,          \* buf[0 .. n-1] of the relay loop
     reads |-> 0,           \* chunks read from upstream
     connfd |-> "open",     \* the client connection
     clientfd |-> "none",   \* the upstream connection: none, open, failed
     clientOut |-> <<>>,    \* bytes written to the client
     upRead |-> <<>>,       \* history: the chunks read from upstream
     path |-> "none",       \* history: empty, malformed, hit, connfail, miss
     hitData |-> <<>>,      \* history: the data of the entry a hit returned
     mutated |-> FALSE,     \* history: the thread stored to the cache
     evicted |-> 0,         \* history: entries the thread evicted
     method |-> "",         \* method
     version |-> "",        \* version
     hdrIn |-> <<>>,        \* the lines the client has sent after the request line
     hdrs |-> <<>>,         \* history: the lines read from the client
     upOut |-> <<>>,        \* the text written to the upstream connection
     errs |-> 0]            \* reads of the header loop that reported an error

\* return NULL: the thread ends and its locals are gone; the descriptors it
\* left open stay open, and the history of what it did is kept
Returned(t) ==
    [NewThread EXCEPT !.pc = "done", !.connfd = t.connfd, !.clientfd = t.clientfd,
                      !.clientOut = t.clientOut, !.upRead = t.upRead, !.path = t.path,
                      !.hitData = t.hitData, !.mutated = t.mutated,
                      !.evicted = t.evicted, !.ci = t.ci]

Init ==
    /\ heap = [a \in {HEAD} \cup Nodes |-> IF a = HEAD THEN HeadCell ELSE FreedCell]
    /\ cachesize = 0
    /\ th = [w \in Workers |-> NewThread]
    /\ conns = 0
    /\ crashed = FALSE
    /\ brk = 0
    /\ lru = <<>>
    /\ rq = [w \in Workers |-> NewRequest]
    /\ olds = NullPtr

\* lines 81-89: accept a connection and start a thread on it (threads are
\* interchangeable: the new thread takes the lowest free slot)
Accept(w) ==
    /\ th[w].pc \in {"idle", "done"}
    /\ \A v \in Workers : v < w => th[v].pc \notin {"idle", "done"}
    /\ conns < MaxConns
    /\ conns' = conns + 1
    /\ th' = [th EXCEPT ![w] = [NewThread EXCEPT !.pc = "readline"]]
    /\ UNCHANGED <<rq, olds, heap, cachesize, crashed, brk, lru>>

\* lines 126-127: the client closed before sending a request line
EmptyRequest(w) ==
    /\ th[w].pc = "readline"
    /\ th' = [th EXCEPT ![w].pc = "reject_write", ![w].path = "empty"]
    /\ UNCHANGED <<rq, olds, heap, cachesize, conns, crashed, brk, lru>>

\* lines 132-133: check_request_line returned -1
MalformedRequest(w) ==
    /\ th[w].pc = "readline"
    /\ th' = [th EXCEPT ![w].pc = "reject_write", ![w].path = "malformed"]
    /\ UNCHANGED <<rq, olds, heap, cachesize, conns, crashed, brk, lru>>

\* lines 132-139: a valid request line, resolved to host, port, uri
ParseRequest(w) ==
    /\ th[w].pc = "readline"
    /\ \E k \in Targets :
          th' = [th EXCEPT ![w].pc = "lookup", ![w].key = k]
    /\ UNCHANGED <<rq, olds, heap, cachesize, conns, crashed, brk, lru>>

\* rio_writen(connfd, ...): nothing reaches the client on a closed descriptor
WriteClient(t, bytes) ==
    IF t.connfd = "open" THEN t.clientOut \o bytes ELSE t.clientOut

\* lines 128 and 134
RejectWrite(w) ==
    /\ th[w].pc = "reject_write"
    /\ th' = [th EXCEPT ![w].pc = "reject_close",
                        ![w].clientOut = WriteClient(th[w], bad_request)]
    /\ UNCHANGED <<rq, olds, heap, cachesize, conns, crashed, brk, lru>>

\* lines 129-130 and 135-136
RejectClose(w) ==
    /\ th[w].pc = "reject_close"
    /\ th' = [th EXCEPT ![w] = Returned([th[w] EXCEPT !.connfd = "closed"])]
    /\ UNCHANGED <<rq, olds, heap, cachesize, conns, crashed, brk, lru>>

----------------------------------------------------------------------------
(***************************************************************************)
(* get_cached_item, lines 282-298.                                         *)
(***************************************************************************)
\* lines 285-286
LookupStart(w) ==
    /\ th[w].pc = "lookup"
    /\ th' = [th EXCEPT ![w].pc = "lk_test", ![w].prev = HEAD,
                        ![w].curr = heap[HEAD].next]
    /\ UNCHANGED <<rq, olds, heap, cachesize, conns, crashed, brk, lru>>

\* line 297: the scan reached the end of the list
LookupMiss(w) ==
    /\ th[w].pc = "lk_test"
    /\ th[w].curr = NULL
    /\ th' = [th EXCEPT ![w].pc = "connect", ![w].prev = NULL, ![w].curr = NULL,
                        ![w].path = "miss"]
    /\ UNCHANGED <<rq, olds, heap, cachesize, conns, crashed, brk, lru>>

\* lines 287-288 and 294-295: compare the keys, step to the next cell on a
\* mismatch.  The strings of a freed cell compare either way.
LookupTest(w) ==
    LET t == th[w] IN
    /\ t.pc = "lk_test"
    /\ t.curr # NULL
    /\ \E same \in (IF heap[t.curr].alloc THEN {SameRequest(t.key, heap[t.curr])}
                                          ELSE BOOLEAN) :
         IF same
         THEN th' = [th EXCEPT ![w].pc = "lk_unlink"]
         ELSE th' = [th EXCEPT ![w].prev = t.curr, ![w].curr = heap[t.curr].next]
    /\ UNCHANGED <<rq, olds, heap, cachesize, conns, crashed, brk, lru>>

LookupUnlink_Skip(w) ==
    /\ th[w].pc = "lk_unlink"
    /\ th' = [th EXCEPT ![w].pc = "lk_relink", ![w].mutated = TRUE]
    /\ UNCHANGED <<rq, olds, heap, cachesize, conns, crashed, brk, lru>>

\* line 289: prev->next = curr->next
LookupUnlink(w) ==
    LET t == th[w] IN
    /\ t.pc = "lk_unlink"
    /\ heap' = [heap EXCEPT ![t.prev].next = heap[t.curr].next]
    /\ th' = [th EXCEPT ![w].pc = "lk_relink", ![w].mutated = TRUE]
    /\ UNCHANGED <<rq, olds, cachesize, conns, crashed, brk, lru>>

\* line 290: curr->next = cachehead->next
LookupRelink(w) ==
    LET t == th[w] IN
    /\ t.pc = "lk_relink"
    /\ heap' = [heap EXCEPT ![t.curr].next = heap[HEAD].next]
    /\ th' = [th EXCEPT ![w].pc = "lk_head"]
    /\ UNCHANGED <<rq, olds, cachesize, conns, crashed, brk, lru>>

\* lines 291-292: cachehead->next = curr; return curr
LookupHead(w) ==
    LET t == th[w] IN
    /\ t.pc = "lk_head"
    /\ heap' = [heap EXCEPT ![HEAD].next = t.curr]
    /\ th' = [th EXCEPT ![w].pc = "hit_write", ![w].item = t.curr,
                        ![w].prev = NULL, ![w].curr = NULL,
                        ![w].path = "hit", ![w].hitData = heap[t.curr].data]
    /\ lru' = LruOnly(t.curr) \o LruWithout(t.curr)
    /\ UNCHANGED <<rq, olds, cachesize, conns, crashed, brk>>

----------------------------------------------------------------------------
(***************************************************************************)
(* proxy, the cache hit, lines 143-147.                                    *)
(***************************************************************************)
\* line 144: rio_writen(connfd, item->data, item->length)
HitWrite(w) ==
    LET t == th[w] IN
    /\ t.pc = "hit_write"
    /\ \E d \in ReadData(t.item) :
          th' = [th EXCEPT ![w].pc = "hit_close", ![w].clientOut = WriteClient(t, d)]
    /\ UNCHANGED <<rq, olds, heap, cachesize, conns, crashed, brk, lru>>

\* lines 145-146
HitClose(w) ==
    /\ th[w].pc = "hit_close"
    /\ th' = [th EXCEPT ![w] = Returned([th[w] EXCEPT !.connfd = "closed"])]
    /\ UNCHANGED <<rq, olds, heap, cachesize, conns, crashed, brk, lru>>

----------------------------------------------------------------------------
(***************************************************************************)
(* proxy, the cache miss: connect and relay, lines 150-188.                *)
(***************************************************************************)
\* line 150, open_clientfd succeeded
ConnectOk(w) ==
    /\ th[w].pc = "connect"
    /\ th' = [th EXCEPT ![w].pc = "relay_read", ![w].clientfd = "open"]
    /\ UNCHANGED <<rq, olds, heap, cachesize, conns, crashed, brk, lru>>

\* lines 150-151, open_clientfd failed
ConnectFail(w) ==
    /\ th[w].pc = "connect"
    /\ th' = [th EXCEPT ![w].pc = "connfail_write", ![w].clientfd = "failed",
                        ![w].path = "connfail"]
    /\ UNCHANGED <<rq, olds, heap, cachesize, conns, crashed, brk, lru>>

\* lines 152-156: write the reply, free host, port and uri, return
ConnFailWrite(w) ==
    /\ th[w].pc = "connfail_write"
    /\ th' = [th EXCEPT ![w] = Returned([th[w] EXCEPT
                                 !.clientOut = WriteClient(th[w], bad_request)])]
    /\ UNCHANGED <<rq, olds, heap, cachesize, conns, crashed, brk, lru>>

\* lines 181-186: what a chunk of n bytes does to valid, len and cachebuf
Capture(t, chunk) ==
    IF t.valid /\ Fits(t.len, Len(chunk))
    THEN [t EXCEPT !.cachebuf = t.cachebuf \o chunk, !.len = t.len + Len(chunk)]
    ELSE [t EXCEPT !.valid = FALSE]

\* lines 180-186: rio_readnb returned n > 0 bytes
RelayRead(w, nb) ==
    LET t == th[w] IN
    /\ t.pc = "relay_read"
    /\ t.reads < MaxReads
    /\ \E chunk \in Chunks(nb) :
          th' = [th EXCEPT ![w] = [Capture(t, chunk) EXCEPT
                                      !.pc = "relay_write", !.buf = chunk,
                                      !.reads = t.reads + 1,
                                      !.upRead = Append(t.upRead, chunk)]]
    /\ UNCHANGED <<rq, olds, heap, cachesize, conns, crashed, brk, lru>>

\* the bytes line 187 hands to rio_writen
Relayed_ValidOnly(t) == IF t.valid THEN t.buf ELSE <<>>

Relayed(t) == t.buf

\* line 187: rio_writen(connfd, buf, n)
RelayWrite(w) ==
    LET t == th[w] IN
    /\ t.pc = "relay_write"
    /\ th' = [th EXCEPT ![w].pc = "relay_read", ![w].buf = <<>>,
                        ![w].clientOut = WriteClient(t, Relayed(t))]
    /\ UNCHANGED <<rq, olds, heap, cachesize, conns, crashed, brk, lru>>

\* lines 180 and 191, 210-213: rio_readnb returned 0
RelayEof(w) ==
    LET t == th[w] IN
    /\ t.pc = "relay_read"
    /\ th' = [th EXCEPT ![w].pc = IF t.valid THEN "ins_test" ELSE "close_end"]
    /\ UNCHANGED <<rq, olds, heap, cachesize, conns, crashed, brk, lru>>

\* lines 180-182: rio_readnb returned -1.  -1 is not 0, so the loop body runs
\* with n = -1: while the capture is valid, len + n < MAX_OBJECT_SIZE holds
\* and memcpy is called with the length (size_t)-1, which kills the process
RelayError(w) ==
    LET t == th[w] IN
    /\ t.pc = "relay_read"
    /\ IF t.valid
       THEN crashed' = TRUE /\ th' = [th EXCEPT ![w].pc = "fault"]
       ELSE crashed' = crashed /\ th' = [th EXCEPT ![w].pc = "relay_write_err"]
    /\ UNCHANGED <<rq, olds, heap, cachesize, conns, brk, lru>>

\* line 187 with n = -1: write refuses the length, nothing reaches the
\* client, and the loop goes on to the next read
RelayWriteErr(w) ==
    /\ th[w].pc = "relay_write_err"
    /\ th' = [th EXCEPT ![w].pc = "relay_read"]
    /\ UNCHANGED <<rq, olds, heap, cachesize, conns, crashed, brk, lru>>

\* lines 217-219
CloseEnd(w) ==
    /\ th[w].pc = "close_end"
    /\ th' = [th EXCEPT ![w] = Returned([th[w] EXCEPT !.connfd = "closed"])]
    /\ UNCHANGED <<rq, olds, heap, cachesize, conns, crashed, brk, lru>>

----------------------------------------------------------------------------
(***************************************************************************)
(* proxy, the insertion, lines 191-208, and delete_last_cache, 303-322.    *)
(***************************************************************************)
\* line 193: while (cachesize + len > MAX_CACHE_SIZE).  A thread is at
\* "ins_test" before its first test and at "ins_loop" after an eviction.
InsTest(w) ==
    LET t == th[w] IN
    /\ t.pc \in {"ins_test", "ins_loop"}
    /\ th' = [th EXCEPT ![w].pc = IF NeedsEviction(cachesize, t.len)
                                  THEN "del_start" ELSE "ins_alloc"]
    /\ UNCHANGED <<rq, olds, heap, cachesize, conns, crashed, brk, lru>>

\* lines 306-307
DelStart(w) ==
    /\ th[w].pc = "del_start"
    /\ th' = [th EXCEPT ![w].pc = "del_walk", ![w].prev = HEAD,
                        ![w].last = heap[HEAD].next]
    /\ UNCHANGED <<rq, olds, heap, cachesize, conns, crashed, brk, lru>>

\* lines 308-311: while (last->next != NULL)
DelWalk(w) ==
    LET t == th[w] IN
    /\ t.pc = "del_walk"
    /\ t.last # NULL
    /\ IF heap[t.last].next # NULL
       THEN th' = [th EXCEPT ![w].prev = t.last, ![w].last = heap[t.last].next]
       ELSE th' = [th EXCEPT ![w].pc = "del_unlink"]
    /\ UNCHANGED <<rq, olds, heap, cachesize, conns, crashed, brk, lru>>

\* line 313: prev->next = NULL
DelUnlink(w) ==
    LET t == th[w] IN
    /\ t.pc = "del_unlink"
    /\ heap' = [heap EXCEPT ![t.prev].next = NULL]
    /\ th' = [th EXCEPT ![w].pc = "del_size_load", ![w].mutated = TRUE,
                        ![w].evicted = @ + 1]
    /\ lru' = LruWithout(t.last)
    /\ UNCHANGED <<rq, olds, cachesize, conns, crashed, brk>>

\* line 314, cachesize -= last->length: the loads and the subtraction
DelSizeLoad(w) ==
    LET t == th[w] IN
    /\ t.pc = "del_size_load"
    /\ \E l \in ReadLength(t.last) :
          th' = [th EXCEPT ![w].pc = "del_size_store", ![w].reg = Shrunk(cachesize, l)]
    /\ UNCHANGED <<rq, olds, heap, cachesize, conns, crashed, brk, lru>>

\* line 314: the store
DelSizeStore(w) ==
    LET t == th[w] IN
    /\ t.pc = "del_size_store"
    /\ cachesize' = t.reg
    /\ th' = [th EXCEPT ![w].pc = "del_free", ![w].reg = 0]
    /\ UNCHANGED <<rq, olds, heap, conns, crashed, brk, lru>>

\* lines 316-320: free the cell and its strings (freeing a freed cell again
\* leaves the heap as it is, unless it kills the process: see Segfault)
DelFree(w) ==
    LET t == th[w] IN
    /\ t.pc = "del_free"
    /\ heap' = [heap EXCEPT ![t.last] = Freed(@)]
    /\ th' = [th EXCEPT ![w].pc = "del_count"]
    /\ UNCHANGED <<rq, olds, cachesize, conns, crashed, brk, lru>>

\* line 321: (cachehead->length)--, and the return to the loop of line 193
DelCount(w) ==
    /\ th[w].pc = "del_count"
    /\ heap' = [heap EXCEPT ![HEAD].length = @ - 1]
    /\ th' = [th EXCEPT ![w].pc = "ins_loop", ![w].prev = NULL, ![w].last = NULL]
    /\ UNCHANGED <<rq, olds, cachesize, conns, crashed, brk, lru>>

\* lines 197-205: allocate ci, fill it in, ci->next = cachehead->next
InsAlloc(w) ==
    LET t == th[w] IN
    /\ t.pc = "ins_alloc"
    /\ \E a \in FreeNodes :
          /\ heap' = [heap EXCEPT ![a] =
                         [alloc |-> TRUE, length |-> t.len, key |-> t.key,
                          data |-> t.cachebuf, next |-> heap[HEAD].next]]
          /\ th' = [th EXCEPT ![w].pc = "ins_publish", ![w].ci = a]
          /\ brk' = IF a > brk THEN a ELSE brk
    /\ UNCHANGED <<rq, olds, cachesize, conns, crashed, lru>>

\* line 206: cachehead->next = ci
InsPublish(w) ==
    LET t == th[w] IN
    /\ t.pc = "ins_publish"
    /\ heap' = [heap EXCEPT ![HEAD].next = t.ci]
    /\ th' = [th EXCEPT ![w].pc = "ins_count", ![w].mutated = TRUE]
    /\ lru' = <<[id |-> t.ci, key |-> t.key, data |-> t.cachebuf]>> \o LruWithout(t.ci)
    /\ UNCHANGED <<rq, olds, cachesize, conns, crashed, brk>>

\* line 207: (cachehead->length)++
InsCount(w) ==
    /\ th[w].pc = "ins_count"
    /\ heap' = [heap EXCEPT ![HEAD].length = @ + 1]
    /\ th' = [th EXCEPT ![w].pc = "ins_size_load"]
    /\ UNCHANGED <<rq, olds, cachesize, conns, crashed, brk, lru>>

\* line 208, cachesize += len: the load and the addition
InsSizeLoad(w) ==
    LET t == th[w] IN
    /\ t.pc = "ins_size_load"
    /\ th' = [th EXCEPT ![w].pc = "ins_size_store", ![w].reg = Grown(cachesize, t.len)]
    /\ UNCHANGED <<rq, olds, heap, cachesize, conns, crashed, brk, lru>>

\* line 208: the store
InsSizeStore(w) ==
    LET t == th[w] IN
    /\ t.pc = "ins_size_store"
    /\ cachesize' = t.reg
    /\ th' = [th EXCEPT ![w].pc = "close_end", ![w].reg = 0]
    /\ UNCHANGED <<rq, olds, heap, conns, crashed, brk, lru>>

----------------------------------------------------------------------------
(***************************************************************************)
(* Memory faults.  The statement a thread is at dereferences a null        *)
(* pointer (line 308 on an empty list), or a cell that was freed: the      *)
(* first kills the process, the second may.                                *)
(***************************************************************************)
BadDeref(t) ==
    \/ t.pc = "lk_test"       /\ t.curr # NULL /\ ~Alloc(t.curr)
    \/ t.pc = "lk_unlink"     /\ (~Alloc(t.prev) \/ ~Alloc(t.curr))
    \/ t.pc = "lk_relink"     /\ ~Alloc(t.curr)
    \/ t.pc = "hit_write"     /\ ~Alloc(t.item)
    \/ t.pc = "del_walk"      /\ ~Alloc(t.last)
    \/ t.pc = "del_unlink"    /\ ~Alloc(t.prev)
    \/ t.pc = "del_size_load" /\ ~Alloc(t.last)
    \/ t.pc = "del_free"      /\ ~Alloc(t.last)

Segfault(w) ==
    /\ BadDeref(th[w])
    /\ crashed' = TRUE
    /\ UNCHANGED <<rq, olds, heap, cachesize, th, conns, brk, lru>>

----------------------------------------------------------------------------
(***************************************************************************)
(* proxy, the request sent upstream: lines 158-172.                        *)
(***************************************************************************)
\* line 159: sprintf(buf, "%s %s %s\r\n", method, uri, version)
RequestLineOut(t) == <<t.method, " ", t.key.uri, " ", t.version>> \o CRLF

\* lines 159-160
FwdRequestLine(w) ==
    LET t == th[w] IN
    /\ t.pc = "fwd_reqline"
    /\ th' = [th EXCEPT ![w].pc = "fwd_read", ![w].buf = RequestLineOut(t),
                        ![w].upOut = t.upOut \o RequestLineOut(t)]
    /\ UNCHANGED <<rq, olds, heap, cachesize, conns, crashed, brk, lru>>

\* line 164: the loop ends at the blank line
AfterLine(line) == IF line = CRLF THEN "fwd_fixed" ELSE "fwd_filter"

\* lines 163-164: rio_readlineb returned a line
HdrRead(w) ==
    LET t == th[w] IN
    /\ t.pc = "fwd_read"
    /\ t.hdrIn # <<>>
    /\ th' = [th EXCEPT ![w].pc = AfterLine(Head(t.hdrIn)), ![w].buf = Head(t.hdrIn),
                        ![w].hdrIn = Tail(t.hdrIn),
                        ![w].hdrs = Append(t.hdrs, Head(t.hdrIn))]
    /\ UNCHANGED <<rq, olds, heap, cachesize, conns, crashed, brk, lru>>

\* line 163: rio_readlineb returned 0, the client has sent nothing more
HdrEof(w) ==
    LET t == th[w] IN
    /\ t.pc = "fwd_read"
    /\ t.hdrIn = <<>>
    /\ th' = [th EXCEPT ![w].pc = "fwd_fixed"]
    /\ UNCHANGED <<rq, olds, heap, cachesize, conns, crashed, brk, lru>>

\* lines 163-164: rio_readlineb returned -1 before it stored a byte; -1 is
\* not 0, so the loop body runs on the line that buf still holds
HdrError(w) ==
    LET t == th[w] IN
    /\ t.pc = "fwd_read"
    /\ t.errs < MaxReadErrors
    /\ th' = [th EXCEPT ![w].pc = AfterLine(t.buf), ![w].errs = t.errs + 1]
    /\ UNCHANGED <<rq, olds, heap, cachesize, conns, crashed, brk, lru>>

\* line 168: the line is not forwarded
Suppressed(line) ==
    \/ StartsWith(line, UserAgent)
    \/ StartsWith(line, Connection)
    \/ StartsWith(line, ProxyConnection)

\* lines 168-170
HdrFilter(w) ==
    LET t == th[w] IN
    /\ t.pc = "fwd_filter"
    /\ th' = [th EXCEPT ![w].pc = "fwd_read",
                        ![w].upOut = IF Suppressed(t.buf) THEN t.upOut
                                     ELSE t.upOut \o t.buf]
    /\ UNCHANGED <<rq, olds, heap, cachesize, conns, crashed, brk, lru>>

\* lines 172-179
FwdFixed(w) ==
    LET t == th[w] IN
    /\ t.pc = "fwd_fixed"
    /\ th' = [th EXCEPT ![w].pc = "relay_read", ![w].buf = <<>>,
                        ![w].upOut = t.upOut \o client_res_hdr]
    /\ UNCHANGED <<rq, olds, heap, cachesize, conns, crashed, brk, lru>>

----------------------------------------------------------------------------
(***************************************************************************)
(* proxy, the request line: lines 126-139, check_request_line (226-239)    *)
(* and parse_url (244-276), one action for each call of strtok.            *)
(***************************************************************************)
\* the machine after a statement becomes the state; a memory fault kills the
\* process
Becomes(M) ==
    /\ rq' = M.rq
    /\ olds' = M.olds
    /\ crashed' = (crashed \/ \E v \in Workers : M.rq[v].pc = "fault")
    /\ UNCHANGED <<heap, cachesize, th, conns, brk, lru>>

Machine == [rq |-> rq, olds |-> olds]

\* line 126: a request line arrives
ReadRequestLine(w, lines) ==
    /\ rq[w].pc = "recv"
    /\ \E line \in lines : rq' = [rq EXCEPT ![w] = Loaded(line)]
    /\ UNCHANGED <<heap, cachesize, th, conns, crashed, brk, lru, olds>>

CheckBlank(w)  == rq[w].pc = "crl_blank"   /\ Becomes(CrlBlank(Machine, w))
TokMethod(w)   == rq[w].pc = "crl_method"  /\ Becomes(CrlMethod(Machine, w))
TokUrl(w)      == rq[w].pc = "crl_url"     /\ Becomes(CrlUrl(Machine, w))
TokVersion(w)  == rq[w].pc = "crl_version" /\ Becomes(CrlVersion(Machine, w))
UrlScan(w)     == rq[w].pc = "pu_scan"     /\ Becomes(PuScan(Machine, w))
TokHost(w)     == rq[w].pc = "pu_host"     /\ Becomes(PuHost(Machine, w))
TokPort(w)     == rq[w].pc = "pu_port"     /\ Becomes(PuPort(Machine, w))
TokUri(w)      == rq[w].pc = "pu_uri"      /\ Becomes(PuUri(Machine, w))

\* line 266 has written past the end of *port: the heap is damaged, and the
\* process goes on or is killed
OverflowSurvived(w) ==
    /\ rq[w].pc = "pu_overflow"
    /\ rq' = [rq EXCEPT ![w].pc = "pu_uri"]
    /\ UNCHANGED <<heap, cachesize, th, conns, crashed, brk, lru, olds>>

OverflowFault(w) ==
    /\ rq[w].pc = "pu_overflow"
    /\ rq' = [rq EXCEPT ![w].pc = "fault"]
    /\ crashed' = TRUE
    /\ UNCHANGED <<heap, cachesize, th, conns, brk, lru, olds>>

\* the request line of a thread, parsed with no other thread running
ParserPcs == {"crl_blank", "crl_method", "crl_url", "crl_version",
              "pu_scan", "pu_host", "pu_port", "pu_uri"}

Exec(M, w) ==
    CASE M.rq[w].pc = "crl_blank"   -> CrlBlank(M, w)
      [] M.rq[w].pc = "crl_method"  -> CrlMethod(M, w)
      [] M.rq[w].pc = "crl_url"     -> CrlUrl(M, w)
      [] M.rq[w].pc = "crl_version" -> CrlVersion(M, w)
      [] M.rq[w].pc = "pu_scan"     -> PuScan(M, w)
      [] M.rq[w].pc = "pu_host"     -> PuHost(M, w)
      [] M.rq[w].pc = "pu_port"     -> PuPort(M, w)
      [] M.rq[w].pc = "pu_uri"      -> PuUri(M, w)

RECURSIVE Run(_, _)
Run(M, w) == IF M.rq[w].pc \in ParserPcs THEN Run(Exec(M, w), w) ELSE M

ParsedAlone(line) == Run([rq |-> <<Loaded(line)>>, olds |-> NullPtr], 1)

----------------------------------------------------------------------------
\* the program counters inside get_cached_item
LookupPcs == {"lk_test", "lk_unlink", "lk_relink", "lk_head"}

\* the program counters inside the insertion, after its first step
InsertPcs == {"ins_loop", "del_start", "del_walk", "del_unlink", "del_size_load",
              "del_size_store", "del_free", "del_count", "ins_alloc", "ins_publish",
              "ins_count", "ins_size_load", "ins_size_store"}

InCacheOp(w) == th[w].pc \in LookupPcs \cup InsertPcs

\* threads run with no synchronisation at all: any thread may take the next
\* step as long as the process is alive
Running(w) == ~crashed

Next ==
    \/ \E w \in Workers : Running(w) /\ Accept(w)
    \/ \E w \in Workers : Running(w) /\ EmptyRequest(w)
    \/ \E w \in Workers : Running(w) /\ MalformedRequest(w)
    \/ \E w \in Workers : Running(w) /\ ParseRequest(w)
    \/ \E w \in Workers : Running(w) /\ RejectWrite(w)
    \/ \E w \in Workers : Running(w) /\ RejectClose(w)
    \/ \E w \in Workers : Running(w) /\ LookupStart(w)
    \/ \E w \in Workers : Running(w) /\ LookupMiss(w)
    \/ \E w \in Workers : Running(w) /\ LookupTest(w)
    \/ \E w \in Workers : Running(w) /\ LookupUnlink(w)
    \/ \E w \in Workers : Running(w) /\ LookupRelink(w)
    \/ \E w \in Workers : Running(w) /\ LookupHead(w)
    \/ \E w \in Workers : Running(w) /\ HitWrite(w)
    \/ \E w \in Workers : Running(w) /\ HitClose(w)
    \/ \E w \in Workers : Running(w) /\ ConnectOk(w)
    \/ \E w \in Workers : Running(w) /\ ConnectFail(w)
    \/ \E w \in Workers : Running(w) /\ ConnFailWrite(w)
    \/ \E w \in Workers : Running(w) /\ RelayRead(w, NumBytes)
    \/ \E w \in Workers : Running(w) /\ RelayWrite(w)
    \/ \E w \in Workers : Running(w) /\ RelayEof(w)
    \/ \E w \in Workers : Running(w) /\ CloseEnd(w)
    \/ \E w \in Workers : Running(w) /\ InsTest(w)
    \/ \E w \in Workers : Running(w) /\ DelStart(w)
    \/ \E w \in Workers : Running(w) /\ DelWalk(w)
    \/ \E w \in Workers : Running(w) /\ DelUnlink(w)
    \/ \E w \in Workers : Running(w) /\ DelSizeLoad(w)
    \/ \E w \in Workers : Running(w) /\ DelSizeStore(w)
    \/ \E w \in Workers : Running(w) /\ DelFree(w)
    \/ \E w \in Workers : Running(w) /\ DelCount(w)
    \/ \E w \in Workers : Running(w) /\ InsAlloc(w)
    \/ \E w \in Workers : Running(w) /\ InsPublish(w)
    \/ \E w \in Workers : Running(w) /\ InsCount(w)
    \/ \E w \in Workers : Running(w) /\ InsSizeLoad(w)
    \/ \E w \in Workers : Running(w) /\ InsSizeStore(w)
    \/ \E w \in Workers : Running(w) /\ Segfault(w)

Spec == Init /\ [][Next]_vars

\* cache operations run one at a time: no thread takes a step while another
\* thread is inside get_cached_item or inside the insertion
Serialized(w) == ~crashed /\ \A v \in Workers \ {w} : ~InCacheOp(v)

SeqNext ==
    \/ \E w \in Workers : Serialized(w) /\ Accept(w)
    \/ \E w \in Workers : Serialized(w) /\ EmptyRequest(w)
    \/ \E w \in Workers : Serialized(w) /\ MalformedRequest(w)
    \/ \E w \in Workers : Serialized(w) /\ ParseRequest(w)
    \/ \E w \in Workers : Serialized(w) /\ RejectWrite(w)
    \/ \E w \in Workers : Serialized(w) /\ RejectClose(w)
    \/ \E w \in Workers : Serialized(w) /\ LookupStart(w)
    \/ \E w \in Workers : Serialized(w) /\ LookupMiss(w)
    \/ \E w \in Workers : Serialized(w) /\ LookupTest(w)
    \/ \E w \in Workers : Serialized(w) /\ LookupUnlink(w)
    \/ \E w \in Workers : Serialized(w) /\ LookupRelink(w)
    \/ \E w \in Workers : Serialized(w) /\ LookupHead(w)
    \/ \E w \in Workers : Serialized(w) /\ HitWrite(w)
    \/ \E w \in Workers : Serialized(w) /\ HitClose(w)
    \/ \E w \in Workers : Serialized(w) /\ ConnectOk(w)
    \/ \E w \in Workers : Serialized(w) /\ ConnectFail(w)
    \/ \E w \in Workers : Serialized(w) /\ ConnFailWrite(w)
    \/ \E w \in Workers : Serialized(w) /\ RelayRead(w, NumBytes)
    \/ \E w \in Workers : Serialized(w) /\ RelayWrite(w)
    \/ \E w \in Workers : Serialized(w) /\ RelayEof(w)
    \/ \E w \in Workers : Serialized(w) /\ CloseEnd(w)
    \/ \E w \in Workers : Serialized(w) /\ InsTest(w)
    \/ \E w \in Workers : Serialized(w) /\ DelStart(w)
    \/ \E w \in Workers : Serialized(w) /\ DelWalk(w)
    \/ \E w \in Workers : Serialized(w) /\ DelUnlink(w)
    \/ \E w \in Workers : Serialized(w) /\ DelSizeLoad(w)
    \/ \E w \in Workers : Serialized(w) /\ DelSizeStore(w)
    \/ \E w \in Workers : Serialized(w) /\ DelFree(w)
    \/ \E w \in Workers : Serialized(w) /\ DelCount(w)
    \/ \E w \in Workers : Serialized(w) /\ InsAlloc(w)
    \/ \E w \in Workers : Serialized(w) /\ InsPublish(w)
    \/ \E w \in Workers : Serialized(w) /\ InsCount(w)
    \/ \E w \in Workers : Serialized(w) /\ InsSizeLoad(w)
    \/ \E w \in Workers : Serialized(w) /\ InsSizeStore(w)
    \/ \E w \in Workers : Serialized(w) /\ Segfault(w)

SeqSpec == Init /\ [][SeqNext]_vars

\* handlers run one at a time: a connection is accepted when the thread of
\* the one before it has returned
Alone(w) == ~crashed /\ \A v \in Workers \ {w} : th[v].pc \in {"idle", "done"}

HandlerNext ==
    \/ \E w \in Workers : Alone(w) /\ Accept(w)
    \/ \E w \in Workers : Alone(w) /\ EmptyRequest(w)
    \/ \E w \in Workers : Alone(w) /\ MalformedRequest(w)
    \/ \E w \in Workers : Alone(w) /\ ParseRequest(w)
    \/ \E w \in Workers : Alone(w) /\ RejectWrite(w)
    \/ \E w \in Workers : Alone(w) /\ RejectClose(w)
    \/ \E w \in Workers : Alone(w) /\ LookupStart(w)
    \/ \E w \in Workers : Alone(w) /\ LookupMiss(w)
    \/ \E w \in Workers : Alone(w) /\ LookupTest(w)
    \/ \E w \in Workers : Alone(w) /\ LookupUnlink(w)
    \/ \E w \in Workers : Alone(w) /\ LookupRelink(w)
    \/ \E w \in Workers : Alone(w) /\ LookupHead(w)
    \/ \E w \in Workers : Alone(w) /\ HitWrite(w)
    \/ \E w \in Workers : Alone(w) /\ HitClose(w)
    \/ \E w \in Workers : Alone(w) /\ ConnectOk(w)
    \/ \E w \in Workers : Alone(w) /\ ConnectFail(w)
    \/ \E w \in Workers : Alone(w) /\ ConnFailWrite(w)
    \/ \E w \in Workers : Alone(w) /\ RelayRead(w, NumRelayBytes)
    \/ \E w \in Workers : Alone(w) /\ RelayWrite(w)
    \/ \E w \in Workers : Alone(w) /\ RelayEof(w)
    \/ \E w \in Workers : Alone(w) /\ CloseEnd(w)
    \/ \E w \in Workers : Alone(w) /\ InsTest(w)
    \/ \E w \in Workers : Alone(w) /\ DelStart(w)
    \/ \E w \in Workers : Alone(w) /\ DelWalk(w)
    \/ \E w \in Workers : Alone(w) /\ DelUnlink(w)
    \/ \E w \in Workers : Alone(w) /\ DelSizeLoad(w)
    \/ \E w \in Workers : Alone(w) /\ DelSizeStore(w)
    \/ \E w \in Workers : Alone(w) /\ DelFree(w)
    \/ \E w \in Workers : Alone(w) /\ DelCount(w)
    \/ \E w \in Workers : Alone(w) /\ InsAlloc(w)
    \/ \E w \in Workers : Alone(w) /\ InsPublish(w)
    \/ \E w \in Workers : Alone(w) /\ InsCount(w)
    \/ \E w \in Workers : Alone(w) /\ InsSizeLoad(w)
    \/ \E w \in Workers : Alone(w) /\ InsSizeStore(w)

HandlerSpec == Init /\ [][HandlerNext]_vars

\* the threads read and parse their request lines with no synchronisation
ParseNext ==
    \/ \E w \in Workers : Running(w) /\ ReadRequestLine(w, RaceLines)
    \/ \E w \in Workers : Running(w) /\ CheckBlank(w)
    \/ \E w \in Workers : Running(w) /\ TokMethod(w)
    \/ \E w \in Workers : Running(w) /\ TokUrl(w)
    \/ \E w \in Workers : Running(w) /\ TokVersion(w)
    \/ \E w \in Workers : Running(w) /\ UrlScan(w)
    \/ \E w \in Workers : Running(w) /\ TokHost(w)
    \/ \E w \in Workers : Running(w) /\ TokPort(w)
    \/ \E w \in Workers : Running(w) /\ TokUri(w)

ParseSpec == Init /\ [][ParseNext]_vars

\* one thread has read its request line and parses it with no other thread
\* running
ParseSeqInit ==
    /\ heap = [a \in {HEAD} \cup Nodes |-> IF a = HEAD THEN HeadCell ELSE FreedCell]
    /\ cachesize = 0
    /\ th = [w \in Workers |-> NewThread]
    /\ conns = 0
    /\ crashed = FALSE
    /\ brk = 0
    /\ lru = <<>>
    /\ \E line \in RequestLines :
          rq = [w \in Workers |-> IF w = 1 THEN Loaded(line) ELSE NewRequest]
    /\ olds = NullPtr

ParseSeqNext ==
    \/ \E w \in Workers : Running(w) /\ CheckBlank(w)
    \/ \E w \in Workers : Running(w) /\ TokMethod(w)
    \/ \E w \in Workers : Running(w) /\ TokUrl(w)
    \/ \E w \in Workers : Running(w) /\ TokVersion(w)
    \/ \E w \in Workers : Running(w) /\ UrlScan(w)
    \/ \E w \in Workers : Running(w) /\ TokHost(w)
    \/ \E w \in Workers : Running(w) /\ TokPort(w)
    \/ \E w \in Workers : Running(w) /\ TokUri(w)
    \/ \E w \in Workers : Running(w) /\ OverflowSurvived(w)
    \/ \E w \in Workers : Running(w) /\ OverflowFault(w)

ParseSeqSpec == ParseSeqInit /\ [][ParseSeqNext]_vars

\* a thread has connected upstream for a request it parsed and missed, and
\* forwards the request
ForwardInit ==
    /\ heap = [a \in {HEAD} \cup Nodes |-> IF a = HEAD THEN HeadCell ELSE FreedCell]
    /\ cachesize = 0
    /\ conns = 1
    /\ crashed = FALSE
    /\ brk = 0
    /\ lru = <<>>
    /\ rq = [w \in Workers |-> NewRequest]
    /\ olds = NullPtr
    /\ \E k \in Targets, m \in {"GET", "POST"}, v \in {"HTTP/1.0", "HTTP/1.1"},
          lines \in ClientLines :
          th = [w \in Workers |->
                  IF w = 1
                  THEN [NewThread EXCEPT !.pc = "fwd_reqline", !.key = k, !.method = m,
                                         !.version = v, !.path = "miss",
                                         !.clientfd = "open", !.hdrIn = lines]
                  ELSE NewThread]

ForwardNext ==
    \/ \E w \in Workers : Running(w) /\ FwdRequestLine(w)
    \/ \E w \in Workers : Running(w) /\ HdrRead(w)
    \/ \E w \in Workers : Running(w) /\ HdrEof(w)
    \/ \E w \in Workers : Running(w) /\ HdrError(w)
    \/ \E w \in Workers : Running(w) /\ HdrFilter(w)
    \/ \E w \in Workers : Running(w) /\ FwdFixed(w)

ForwardSpec == ForwardInit /\ [][ForwardNext]_vars

\* handlers run one at a time, reads of the upstream connection may report
\* an error, and every thread that can take a step eventually takes one
FairNext ==
    \/ \E w \in Workers : Alone(w) /\ Accept(w)
    \/ \E w \in Workers : Alone(w) /\ EmptyRequest(w)
    \/ \E w \in Workers : Alone(w) /\ MalformedRequest(w)
    \/ \E w \in Workers : Alone(w) /\ ParseRequest(w)
    \/ \E w \in Workers : Alone(w) /\ RejectWrite(w)
    \/ \E w \in Workers : Alone(w) /\ RejectClose(w)
    \/ \E w \in Workers : Alone(w) /\ LookupStart(w)
    \/ \E w \in Workers : Alone(w) /\ LookupMiss(w)
    \/ \E w \in Workers : Alone(w) /\ LookupTest(w)
    \/ \E w \in Workers : Alone(w) /\ LookupUnlink(w)
    \/ \E w \in Workers : Alone(w) /\ LookupRelink(w)
    \/ \E w \in Workers : Alone(w) /\ LookupHead(w)
    \/ \E w \in Workers : Alone(w) /\ HitWrite(w)
    \/ \E w \in Workers : Alone(w) /\ HitClose(w)
    \/ \E w \in Workers : Alone(w) /\ ConnectOk(w)
    \/ \E w \in Workers : Alone(w) /\ ConnectFail(w)
    \/ \E w \in Workers : Alone(w) /\ ConnFailWrite(w)
    \/ \E w \in Workers : Alone(w) /\ RelayRead(w, NumBytes)
    \/ \E w \in Workers : Alone(w) /\ RelayWrite(w)
    \/ \E w \in Workers : Alone(w) /\ RelayEof(w)
    \/ \E w \in Workers : Alone(w) /\ RelayError(w)
    \/ \E w \in Workers : Alone(w) /\ RelayWriteErr(w)
    \/ \E w \in Workers : Alone(w) /\ CloseEnd(w)
    \/ \E w \in Workers : Alone(w) /\ InsTest(w)
    \/ \E w \in Workers : Alone(w) /\ DelStart(w)
    \/ \E w \in Workers : Alone(w) /\ DelWalk(w)
    \/ \E w \in Workers : Alone(w) /\ DelUnlink(w)
    \/ \E w \in Workers : Alone(w) /\ DelSizeLoad(w)
    \/ \E w \in Workers : Alone(w) /\ DelSizeStore(w)
    \/ \E w \in Workers : Alone(w) /\ DelFree(w)
    \/ \E w \in Workers : Alone(w) /\ DelCount(w)
    \/ \E w \in Workers : Alone(w) /\ InsAlloc(w)
    \/ \E w \in Workers : Alone(w) /\ InsPublish(w)
    \/ \E w \in Workers : Alone(w) /\ InsCount(w)
    \/ \E w \in Workers : Alone(w) /\ InsSizeLoad(w)
    \/ \E w \in Workers : Alone(w) /\ InsSizeStore(w)

FairStep(w) ==
    Alone(w) /\
      ( Accept(w)
      \/ EmptyRequest(w)
      \/ MalformedRequest(w)
      \/ ParseRequest(w)
      \/ RejectWrite(w)
      \/ RejectClose(w)
      \/ LookupStart(w)
      \/ LookupMiss(w)
      \/ LookupTest(w)
      \/ LookupUnlink(w)
      \/ LookupRelink(w)
      \/ LookupHead(w)
      \/ HitWrite(w)
      \/ HitClose(w)
      \/ ConnectOk(w)
      \/ ConnectFail(w)
      \/ ConnFailWrite(w)
      \/ RelayRead(w, NumBytes)
      \/ RelayWrite(w)
      \/ RelayEof(w)
      \/ RelayError(w)
      \/ RelayWriteErr(w)
      \/ CloseEnd(w)
      \/ InsTest(w)
      \/ DelStart(w)
      \/ DelWalk(w)
      \/ DelUnlink(w)
      \/ DelSizeLoad(w)
      \/ DelSizeStore(w)
      \/ DelFree(w)
      \/ DelCount(w)
      \/ InsAlloc(w)
      \/ InsPublish(w)
      \/ InsCount(w)
      \/ InsSizeLoad(w)
      \/ InsSizeStore(w))

FairSpec == Init /\ [][FairNext]_vars /\ \A w \in Workers : WF_vars(FairStep(w))

\* The cache after earlier connections: any list of up to MaxWarm entries
\* within the budget, as lines 196-208 build it (cachehead->length counts the
\* entries, cachesize sums their lengths), in any order and with any keys,
\* two entries of one key included.  The run follows the connection after.
WarmEntries == [key : Targets, data : Objects(NumBytes)]

RECURSIVE WarmSize(_)
WarmSize(l) == IF l = <<>> THEN 0 ELSE Len(Head(l).data) + WarmSize(Tail(l))

WarmLists == {l \in SeqsUpTo(WarmEntries, MaxWarm) : WarmSize(l) <= MAX_CACHE_SIZE}

WarmHeap(l) ==
    [a \in {HEAD} \cup Nodes |->
        IF a = HEAD
        THEN [HeadCell EXCEPT !.length = Len(l),
                              !.next = IF l = <<>> THEN NULL ELSE 1]
        ELSE IF a <= Len(l)
        THEN [alloc |-> TRUE, length |-> Len(l[a].data), key |-> l[a].key,
              data |-> l[a].data, next |-> IF a = Len(l) THEN NULL ELSE a + 1]
        ELSE FreedCell]

WarmInit ==
    /\ \E l \in WarmLists :
          /\ heap = WarmHeap(l)
          /\ cachesize = WarmSize(l)
          /\ brk = Len(l)
          /\ lru = [i \in 1..Len(l) |-> [id |-> i, key |-> l[i].key, data |-> l[i].data]]
    /\ th = [w \in Workers |-> NewThread]
    /\ conns = MaxConns - 1
    /\ crashed = FALSE
    /\ rq = [w \in Workers |-> NewRequest]
    /\ olds = NullPtr

WarmNext ==
    \/ \E w \in Workers : Serialized(w) /\ Accept(w)
    \/ \E w \in Workers : Serialized(w) /\ EmptyRequest(w)
    \/ \E w \in Workers : Serialized(w) /\ MalformedRequest(w)
    \/ \E w \in Workers : Serialized(w) /\ ParseRequest(w)
    \/ \E w \in Workers : Serialized(w) /\ RejectWrite(w)
    \/ \E w \in Workers : Serialized(w) /\ RejectClose(w)
    \/ \E w \in Workers : Serialized(w) /\ LookupStart(w)
    \/ \E w \in Workers : Serialized(w) /\ LookupMiss(w)
    \/ \E w \in Workers : Serialized(w) /\ LookupTest(w)
    \/ \E w \in Workers : Serialized(w) /\ LookupUnlink(w)
    \/ \E w \in Workers : Serialized(w) /\ LookupRelink(w)
    \/ \E w \in Workers : Serialized(w) /\ LookupHead(w)
    \/ \E w \in Workers : Serialized(w) /\ HitWrite(w)
    \/ \E w \in Workers : Serialized(w) /\ HitClose(w)
    \/ \E w \in Workers : Serialized(w) /\ ConnectOk(w)
    \/ \E w \in Workers : Serialized(w) /\ ConnectFail(w)
    \/ \E w \in Workers : Serialized(w) /\ ConnFailWrite(w)
    \/ \E w \in Workers : Serialized(w) /\ RelayRead(w, NumBytes)
    \/ \E w \in Workers : Serialized(w) /\ RelayWrite(w)
    \/ \E w \in Workers : Serialized(w) /\ RelayEof(w)
    \/ \E w \in Workers : Serialized(w) /\ CloseEnd(w)
    \/ \E w \in Workers : Serialized(w) /\ InsTest(w)
    \/ \E w \in Workers : Serialized(w) /\ DelStart(w)
    \/ \E w \in Workers : Serialized(w) /\ DelWalk(w)
    \/ \E w \in Workers : Serialized(w) /\ DelUnlink(w)
    \/ \E w \in Workers : Serialized(w) /\ DelSizeLoad(w)
    \/ \E w \in Workers : Serialized(w) /\ DelSizeStore(w)
    \/ \E w \in Workers : Serialized(w) /\ DelFree(w)
    \/ \E w \in Workers : Serialized(w) /\ DelCount(w)
    \/ \E w \in Workers : Serialized(w) /\ InsAlloc(w)
    \/ \E w \in Workers : Serialized(w) /\ InsPublish(w)
    \/ \E w \in Workers : Serialized(w) /\ InsCount(w)
    \/ \E w \in Workers : Serialized(w) /\ InsSizeLoad(w)
    \/ \E w \in Workers : Serialized(w) /\ InsSizeStore(w)

WarmSpec == WarmInit /\ [][WarmNext]_vars

----------------------------------------------------------------------------
(***************************************************************************)
(* Properties.                                                             *)
(***************************************************************************)
Quiescent == \A w \in Workers : th[w].pc \in {"idle", "done"}

\* the allocated cells of the list, in list order
Entries == SelectSeq(CacheList, LAMBDA a : heap[a].alloc)

\* every thread is between cache operations: outside get_cached_item, outside
\* delete_last_cache and outside the statements that add a new entry
AtOpBoundary ==
    \A w \in Workers : th[w].pc \notin LookupPcs \cup (InsertPcs \ {"ins_loop"})

\* C1: a lookup and an insertion each run as one indivisible operation: two
\* threads are never inside get_cached_item or inside the insertion at the
\* same time.
MutualExclusion ==
    \A w, v \in Workers : w # v => ~(InCacheOp(w) /\ InCacheOp(v))

\* C2: once all threads have finished, cachesize equals the sum of the
\* lengths of the entries reachable from cachehead, for every interleaving.
SizeConsistentAtQuiescence ==
    (Quiescent /\ ~crashed) => cachesize = SumLengths(heap, CacheList)

\* C3: at every point in time the list holds at most one entry for each
\* (host, port, uri).
OneEntryPerKey ==
    \A i, j \in 1..Len(Entries) :
        i # j => ~SameRequest(heap[Entries[i]].key, heap[Entries[j]])

\* C4: after any sequence of whole cache operations (lookups, insertions,
\* tail evictions) from the empty cache, cachesize equals the sum of the
\* lengths of the entries in the list.
SizeMatchesEntries ==
    AtOpBoundary => cachesize = SumLengths(heap, CacheList)

\* a thread has just completed an eviction that left an entry behind, with
\* all threads between operations
SizeMatchesEntriesWitness ==
    /\ AtOpBoundary
    /\ \E w \in Workers : th[w].pc = "ins_loop"
    /\ Len(CacheList) >= 1
    /\ cachesize > 0

\* C5: whenever an insertion has completed, cachesize is at most
\* MAX_CACHE_SIZE, whatever the lengths of the objects inserted.
BudgetAfterInsert ==
    \A w \in Workers :
        (th[w].pc = "close_end" /\ th[w].ci # NULL) => cachesize <= MAX_CACHE_SIZE

\* an insertion that had to evict has completed and filled the cache
BudgetAfterInsertWitness ==
    \E w \in Workers :
        /\ th[w].pc = "close_end"
        /\ th[w].ci # NULL
        /\ th[w].evicted >= 1
        /\ cachesize = MAX_CACHE_SIZE

\* the recency order of the entries that are in the list: the most recently
\* inserted or hit first
Recency ==
    LET listed == {CacheList[i] : i \in 1..Len(CacheList)}
        kept == SelectSeq(lru, LAMBDA e : e.id \in listed)
    IN  [i \in 1..Len(kept) |-> kept[i].id]

\* the step of thread w that takes an entry out of the list (line 313)
EvictStep(w) == th[w].pc = "del_unlink" /\ th'[w].pc = "del_size_load"

\* C6: an insertion of length L evicts strictly from the least recently used
\* end of the recency order, one entry at a time, and stops as soon as
\* cachesize + L fits the budget: every entry taken out is the least recently
\* used entry of that moment, and is taken out only while cachesize + L
\* exceeds MAX_CACHE_SIZE.
EvictsLeastRecentlyUsed ==
    [][\A w \in Workers :
          EvictStep(w) =>
              /\ Recency # <<>>
              /\ Recency[Len(Recency)] = th[w].last
              /\ NeedsEviction(cachesize, th[w].len)]_vars

\* the step with which get_cached_item returns to thread w
LookupReturns(w) ==
    /\ th[w].pc \in {"lk_test", "lk_head"}
    /\ th'[w].pc \in {"connect", "hit_write"}

\* C7: after an entry (h, p, u, data, len) was inserted and as long as it is
\* not evicted, every lookup of (h, p, u) hits, returns the bytes and the
\* length that were inserted, and leaves that entry first in the list.
LookupReturnsInserted ==
    [][\A w \in Workers :
          LookupReturns(w) =>
              \A i \in 1..Len(lru) :
                  (/\ lru[i].key.host = th[w].key.host
                   /\ lru[i].key.port = th[w].key.port
                   /\ lru[i].key.uri  = th[w].key.uri)
                  => /\ th'[w].item = lru[i].id
                     /\ heap'[lru[i].id].data = lru[i].data
                     /\ heap'[lru[i].id].length = Len(lru[i].data)
                     /\ heap'[HEAD].next = lru[i].id]_vars

\* C8: when the lookup hits, the handler writes exactly the cached bytes to
\* the client, closes the client connection and terminates, without opening
\* an upstream connection and without inserting into the cache.
HitServedFromCache ==
    \A w \in Workers :
        (th[w].pc = "done" /\ th[w].path = "hit") =>
            /\ th[w].clientOut = th[w].hitData
            /\ th[w].connfd = "closed"
            /\ th[w].clientfd = "none"
            /\ th[w].ci = NULL

\* C9: on an empty read, a malformed request line and a failed upstream
\* connect alike, the handler writes the fixed 400 reply and nothing else,
\* closes the client connection and terminates, and leaves the cache as it
\* was.
FailureReply ==
    \A w \in Workers :
        (th[w].pc = "done" /\ th[w].path \in {"empty", "malformed", "connfail"}) =>
            /\ th[w].clientOut = bad_request
            /\ th[w].connfd = "closed"
            /\ ~th[w].mutated

\* C10: on a miss with a successful connect, the bytes written to the client
\* are the concatenation, in order, of the chunks read from upstream, each
\* chunk written before the next is read, whether or not the capture stays
\* cacheable.
RelayExact ==
    \A w \in Workers :
        th[w].clientfd = "open" =>
            IF th[w].pc = "relay_write"
            THEN /\ th[w].clientOut \o th[w].buf = Flatten(th[w].upRead)
                 /\ th[w].buf = th[w].upRead[Len(th[w].upRead)]
            ELSE th[w].clientOut = Flatten(th[w].upRead)

\* a response of several chunks has been relayed to the end although the
\* capture stopped being cacheable part-way
RelayExactWitness ==
    \E w \in Workers :
        /\ th[w].pc = "close_end"
        /\ ~th[w].valid
        /\ 0 < th[w].len
        /\ Len(th[w].upRead) >= 2
        /\ Len(th[w].clientOut) > th[w].len
        /\ th[w].clientOut = Flatten(th[w].upRead)

\* every chunk of a response, added to the length captured before it, stayed
\* under the per-object ceiling
RECURSIVE StayedUnder(_, _)
StayedUnder(chunks, len) ==
    \/ chunks = <<>>
    \/ /\ len + Len(Head(chunks)) < MAX_OBJECT_SIZE
       /\ StayedUnder(Tail(chunks), len + Len(Head(chunks)))

RECURSIVE RunLength(_, _)
RunLength(str, seps) ==
    IF str = <<>> \/ Head(str) \in seps THEN 0 ELSE 1 + RunLength(Tail(str), seps)

RECURSIVE Tokens(_, _)
Tokens(str, seps) ==
    IF str = <<>> THEN <<>>
    ELSE IF Head(str) \in seps THEN Tokens(Tail(str), seps)
    ELSE <<SubSeq(str, 1, RunLength(str, seps))>>
             \o Tokens(SubSeq(str, RunLength(str, seps) + 1, Len(str)), seps)

Whitespace == {" ", "\t", "\r", "\n"}

\* check_request_line has returned 0, has returned -1
Accepted(w) == rq[w].pc = "pu_scan"
Rejected(w) == rq[w].pc = "rejected"

VersionPart(tok) ==
    LET parts == Tokens(tok, {"\r", "\n"}) IN
    IF parts = <<>> THEN <<>> ELSE parts[1]

FirstIndex(str, c) ==
    IF HasChar(str, c)
    THEN CHOOSE i \in 1..Len(str) : str[i] = c /\ \A j \in 1..(i - 1) : str[j] # c
    ELSE 0

\* the target thread w was sent: the second token of its request line,
\* without a leading http://
TargetSent(w) ==
    LET url == Tokens(rq[w].line, {" "})[2] IN
    IF StartsWith(url, Scheme) THEN SubSeq(url, Len(Scheme) + 1, Len(url)) ELSE url

\* C15: a ':' separates host and port only when it comes before the first
\* '/': then host is the text before it and port the text from it to the
\* next '/' or the end; otherwise host is the text before the first '/' and
\* port is "80".  uri is the text from the first '/' on, or "/" without one.
TargetResolved ==
    \A w \in Workers :
        rq[w].pc = "parsed" =>
            LET u     == TargetSent(w)
                colon == FirstIndex(u, ":")
                slash == FirstIndex(u, "/")
                ported == colon > 0 /\ (slash = 0 \/ colon < slash)
                stop  == IF slash > 0 THEN slash - 1 ELSE Len(u)
            IN  /\ rq[w].host = SubSeq(u, 1, IF ported THEN colon - 1 ELSE stop)
                /\ rq[w].port = IF ported THEN SubSeq(u, colon + 1, stop) ELSE Port80
                /\ rq[w].uri = IF slash > 0 THEN SubSeq(u, slash, Len(u)) ELSE Slash

\* C16: parse_url returns for every target, with host, port and uri set and
\* without reading through a token that strtok did not find.
ParseUrlNeverFails ==
    \A w \in Workers :
        /\ rq[w].pc # "fault"
        /\ rq[w].pc = "parsed" =>
              /\ rq[w].port # <<>>
              /\ rq[w].uri # <<>> /\ Head(rq[w].uri) = "/"

\* what the parsing of a request line has produced
StrOf(R, p) == IF p = NullPtr THEN <<"(null)">> ELSE CStr(R, p)

Outcome(R, v) ==
    IF R[v].pc = "parsed"
    THEN [pc |-> R[v].pc,
          method |-> StrOf(R, R[v].method), version |-> StrOf(R, R[v].version),
          host |-> R[v].host, port |-> R[v].port, uri |-> R[v].uri]
    ELSE [pc |-> R[v].pc]

\* C20: what a thread obtains from parsing its request line is what the
\* parsing of that line alone produces, however the strtok calls of the
\* threads interleave.
ParsingIndependent ==
    \A w \in Workers :
        rq[w].pc \in {"rejected", "parsed", "fault"} =>
            Outcome(rq, w) = Outcome(ParsedAlone(rq[w].line).rq, 1)

\* header names are compared without regard to case
UpperCase == <<"A", "B", "C", "D", "E", "F", "G", "H", "I", "J", "K", "L", "M",
               "N", "O", "P", "Q", "R", "S", "T", "U", "V", "W", "X", "Y", "Z">>
LowerCase == <<"a", "b", "c", "d", "e", "f", "g", "h", "i", "j", "k", "l", "m",
               "n", "o", "p", "q", "r", "s", "t", "u", "v", "w", "x", "y", "z">>

Lower(c) ==
    IF \E i \in 1..26 : UpperCase[i] = c
    THEN LowerCase[CHOOSE i \in 1..26 : UpperCase[i] = c]
    ELSE c

LowerAll(str) == [i \in 1..Len(str) |-> Lower(str[i])]

\* the name of a header line: the text before its first ':'
HeaderName(line) == SubSeq(line, 1, FirstIndex(line, ":") - 1)

\* a User-Agent, Connection or Proxy-Connection header
Replaced(line) ==
    LowerAll(HeaderName(line)) \in
        {LowerAll(UserAgent), LowerAll(Connection), LowerAll(ProxyConnection)}

\* the header lines a client sent before its first blank line
RECURSIVE HeadersOf(_)
HeadersOf(lines) ==
    IF lines = <<>> \/ Head(lines) = CRLF THEN <<>>
    ELSE <<Head(lines)>> \o HeadersOf(Tail(lines))

\* C12: the text sent upstream is the request line METHOD URI VERSION, then
\* the client's header lines before the blank line, in order and verbatim,
\* without the User-Agent, Connection and Proxy-Connection headers and
\* without dropping any other, then the fixed header block once.
UpstreamRequest ==
    \A w \in Workers :
        (th[w].pc = "relay_read" /\ th[w].errs = 0 /\ th[w].upOut # <<>>) =>
            th[w].upOut =
                <<th[w].method, " ", th[w].key.uri, " ", th[w].version, "\r", "\n">>
                    \o Flatten(SelectSeq(HeadersOf(th[w].hdrs \o th[w].hdrIn),
                                         LAMBDA line : ~Replaced(line)))
                    \o client_res_hdr

\* C13: every handler terminates: a thread that has started on a connection
\* eventually returns (or the process has ended), whatever the reads report.
HandlersTerminate ==
    \A w \in Workers : (th[w].pc = "readline") ~> (th[w].pc = "done" \/ crashed)

\* what the cells hold apart from their links
Contents(h) ==
    [a \in DOMAIN h |-> [alloc |-> h[a].alloc, length |-> h[a].length,
                         key |-> h[a].key, data |-> h[a].data]]

\* a step of thread w inside get_cached_item (lines 285-297)
LookupStep(w) == th[w].pc \in {"lookup"} \cup LookupPcs /\ th'[w] # th[w]

\* the list with entry a moved to the front
Promoted(list, a) == <<a>> \o SelectSeq(list, LAMBDA b : b # a)

HitEntryStaysAllocated ==
    \A w \in Workers : th[w].pc = "hit_write" => heap[th[w].item].alloc

\* C19: delete_last_cache is only called on a list that has an entry:
\* whenever a thread has found cachesize + len > MAX_CACHE_SIZE and is about
\* to run line 306, cachehead->next is not NULL.
EvictionOnNonEmptyList ==
    \A w \in Workers : th[w].pc = "del_start" => heap[HEAD].next # NULL

====
